---- MODULE Spec2Model ----
(***************************************************************************)
(* BrutalPyWebUI (src/brutalpywebui/__init__.py): the websocket handler    *)
(* ws(), the after_websocket hook, the background loop and the broadcast   *)
(* methods pg_* / el_*, as one state machine.                              *)
(*                                                                         *)
(* Tasks are the asyncio tasks of the process: one per websocket session   *)
(* (1..NumSess) and the background task (BG).  A step of the model is the  *)
(* code one task runs between two suspension points (await).               *)
(*                                                                         *)
(* Spec is the server with its sessions and its background loop.           *)
(* ProtoSpec is one pg_* / el_* method building the message it sends.      *)
(***************************************************************************)
EXTENDS Integers, Sequences, FiniteSets, TLC

\* ----------------------------------------------------------------- bounds
NumSess == 2
MaxMsg == 2
MaxBcast == 2
MaxTicks == 2
MaxSel == 2
NumInst == 2
MaxWs == 3
MaxOrdBcast == 3

Sess == 1..NumSess
BG == 0
Tasks == {BG} \cup Sess

\* BrutalPyWebUI objects of the process, and websocket objects.
Instances == 1..NumInst
Websockets == 1..MaxWs

\* Inbound frames a browser can send: a well-formed envelope, an object
\* without "event", a JSON value that is no object, bytes that are no JSON.
Forms == {"ok", "noevent", "notobj", "notjson"}

\* The pg_* / el_* methods, by the arguments they take.
PgMethods == {"pg_set_title", "pg_eval"}
ContentMethods == {"el_set_html_unsafe", "el_set_html_templ", "el_set_text",
                   "el_append_text", "el_set_value", "el_append_value"}
NameContentMethods == {"el_set_attribute", "el_set_style"}
NameMethods == {"el_class_add", "el_class_remove"}
BareMethods == {"el_disable", "el_enable"}
SelMethods == ContentMethods \cup NameContentMethods \cup NameMethods
                  \cup BareMethods

\* Arguments a callback may pass: selectors (lists of up to MaxSel, repeats
\* allowed), attribute / style / class names, contents (a plain string, the
\* empty string, a Jinja2 template with one placeholder).
Selectors == {"#a", "#b"}
SelLists == UNION {[1..n -> Selectors] : n \in 0..MaxSel}
Names == {"title", "color"}
Contents == {"x", "", "{{ c }}"}

VARIABLES
    connections,  \* BrutalPyWebUI._connections: the set of registered websockets
    pc,           \* pc[t]: where task t stands in ws() / _background_loop()
    up,           \* up[s]: the transport of session s is connected
    shutdown,     \* the process was told to shut down
    inq,          \* inq[s]: numbers of the frames that arrived and ws() has not read
    narr,         \* narr[s]: number of frames that arrived on session s
    h,            \* h[s]: history of session s (counters of what ws() did)
    bc,           \* bc[t]: the broadcast call task t is inside (NoBc: none)
    fin,          \* the broadcast call that ended in the last step, and how
    nbc,          \* number of broadcast calls made so far
    ticks,        \* number of invocations of background_handler so far
    g,            \* history of the background loop
    rx,           \* the frame ws() took from the queue in the last step
    call,         \* a pg_* / el_* method call and its arguments
    wire,         \* the message: as the method hands it to ws.send_json, or
                  \* as JSON.parse gives it to the browser's ws.onmessage
    op,           \* the latest access to _connections and its outcome
    insts,        \* insts[i]: what belongs to BrutalPyWebUI instance i
    dom,          \* the page in the browser, before and after ws.onmessage
    out           \* the commands sent to each session, in the order sent

vars == <<connections, pc, up, shutdown, inq, narr, h, bc, fin, nbc, ticks,
          g, rx, call, wire, op, insts, dom, out>>

Range(q) == {q[i] : i \in 1..Len(q)}

RECURSIVE SumTo(_, _)
SumTo(f, n) == IF n = 0 THEN 0 ELSE f[n] + SumTo(f, n - 1)

NoBc == [start |-> {}, sent |-> <<>>, cur |-> 0]
NoFin == [by |-> 0 - 1, start |-> {}, sent |-> <<>>, now |-> {},
          res |-> "none", err |-> "none"]

\* h[s].last   how ws() last came to `await receive_json()`, or how it ended:
\*             init_ret / init_exc / init_bcexc (init_handler returned, raised,
\*             raised out of a broadcast), ret / exc / bcexc (event_handler),
\*             bad (the frame could not be decoded), cancelled (CancelledError
\*             left ws()), loop_exit (the inbound loop ended, hook ran)
\* h[s].nadd   calls of _connections.add for s
\* h[s].nrem   calls of _connections.remove for s
\* h[s].ninit  invocations of init_handler for s
\* h[s].run    invocations of event_handler for s that have not ended
\* h[s].cur    number of the frame last taken from the queue
\* h[s].ndone  frames whose handling has ended (decode error, or the event
\*             handler returned, raised or was cancelled)
NoHist == [last |-> "-", nadd |-> 0, nrem |-> 0, ninit |-> 0,
           run |-> 0, cur |-> 0, ndone |-> 0]

\* g.last    how the latest invocation of background_handler that has ended
\*           ended: "-" (none has ended), ret, exc (it raised), bcexc (a
\*           broadcast it awaited raised), cut (CancelledError was raised in it)
\* g.slept   an asyncio.sleep(background_interval) ran to its end since then
NoG == [last |-> "-", slept |-> FALSE]

\* rx.s: the session whose ws() took a frame, rx.form: what the frame held,
\* rx.called: event_handler was called for it, rx.ev / rx.data: with what.
NoRx == [s |-> 0, form |-> "-", called |-> FALSE, ev |-> "-", data |-> "-"]

\* op.kind: add (line 336), remove (line 360), iterate (a pg_* / el_* method);
\* op.inst: the instance it went through; op.ws: the websocket added or
\* removed; op.before / op.after: the set found before and after;
\* op.exc: the exception the access raised.
NoOp == [kind |-> "none", inst |-> 0, ws |-> 0, before |-> {}, after |-> {},
         exc |-> "none"]

\* insts[i].attr: the set bound to the name _connections in the instance's
\* own __dict__; insts[i].live: the websockets whose ws() of instance i is
\* running.
NoInsts == [i \in Instances |-> [attr |-> {}, live |-> {}]]

\* dom.page[sel]: the element selector sel matches (its innerText, its
\* value, its disabled flag); dom.before: the page when the frame arrived;
\* dom.result: none (ws.onmessage has not run), done (it returned), threw.
NoDom ==
    [page   |-> [sel \in Selectors |->
                    [innerText |-> "", value |-> "", disabled |-> FALSE]],
     before |-> [sel \in Selectors |->
                    [innerText |-> "", value |-> "", disabled |-> FALSE]],
     result |-> "none"]

\* out.to[s]: the commands that went out to session s, oldest first; a
\* command is <<t, k>>: the k-th pg_* / el_* call of task t.
\* out.n[t]: the number of pg_* / el_* calls task t has made.
NoOut == [to |-> [s \in Sess |-> <<>>], n |-> [t \in Tasks |-> 0]]

NoCall == [method |-> "none", selectors |-> <<>>, name |-> "", content |-> ""]
NoWire == [event |-> "none", data |-> "none"]

\* ------------------------------------------------------- pure operations

\* An iterator that may end before it has yielded every entry.
setiter_next_short(c, b) ==
    IF Cardinality(c) # Cardinality(b.start)
    THEN {[res |-> "RuntimeError", ws |-> 0]}
    ELSE {[res |-> "yield", ws |-> x] : x \in c \ Range(b.sent)}
         \cup {[res |-> "stop", ws |-> 0]}

\* `for ws in self._connections`: one call of the set iterator's __next__.
\* c is the set now, b the broadcast call (b.start: the set when the loop
\* began, b.sent: the websockets already yielded).  CPython raises
\* RuntimeError when the size differs from the size at the start; otherwise
\* it yields the entries of the table it has not passed yet, in table order
\* (any order).  An entry added while the loop was suspended may lie before
\* or after the iterator's position, so it may be yielded or skipped.
setiter_next(c, b) ==
    IF Cardinality(c) # Cardinality(b.start)
    THEN {[res |-> "RuntimeError", ws |-> 0]}
    ELSE LET rest == c \ Range(b.sent) IN
         {[res |-> "yield", ws |-> x] : x \in rest}
         \cup (IF rest \cap b.start = {} THEN {[res |-> "stop", ws |-> 0]} ELSE {})

\* websocket.receive_json() followed by pdata.get("event") and
\* pdata.get("data"): json.loads raises on bytes that are no JSON, .get raises
\* on a JSON value that is no dict, and dict.get returns None for a missing
\* key.
receive_json(form) ==
    CASE form = "notjson" -> [exc |-> TRUE, ev |-> "-", data |-> "-"]
      [] form = "notobj"  -> [exc |-> TRUE, ev |-> "-", data |-> "-"]
      [] form = "noevent" -> [exc |-> FALSE, ev |-> "None", data |-> "data"]
      [] OTHER            -> [exc |-> FALSE, ev |-> "name", data |-> "data"]

\* render_template_string(content, **context) with context c="y": a template
\* without a placeholder renders to itself.
render_template_string(content) ==
    IF content = "{{ c }}" THEN "y" ELSE content

\* A comprehension that keeps only the first selector.
dict_comp_first(selectors, val) ==
    [k \in (IF selectors = <<>> THEN {} ELSE {selectors[1]}) |-> val]

\* `{k: val for k in selectors}`: the dict is filled in list order, a key
\* that comes again overwrites its entry.
RECURSIVE dict_comp(_, _)
dict_comp(selectors, val) ==
    IF selectors = <<>>
    THEN [k \in {} |-> val]
    ELSE LET n == Len(selectors)
             d == dict_comp(SubSeq(selectors, 1, n - 1), val)
         IN  [k \in DOMAIN d \cup {selectors[n]} |->
                 IF k = selectors[n] THEN val ELSE d[k]]

\* Methods that put their own name into the message.
event_of_name(method) == method

\* The "event" string each method puts into its message.
event_of(method) ==
    CASE method = "el_set_html_unsafe" -> "el_html"
      [] method = "el_set_html_templ"  -> "el_html"
      [] method = "el_set_text"        -> "el_text"
      [] method = "el_append_text"     -> "el_text_append"
      [] method = "el_set_value"       -> "el_value"
      [] method = "el_append_value"    -> "el_value_append"
      [] method = "el_set_attribute"   -> "el_set_attr"
      [] OTHER                         -> method

\* The value each method puts under every selector.
value_of(c) ==
    CASE c.method = "el_set_html_templ"   -> render_template_string(c.content)
      [] c.method \in ContentMethods     -> c.content
      [] c.method \in NameContentMethods -> <<c.name, c.content>>
      [] c.method \in NameMethods        -> c.name
      [] OTHER                            -> ""

\* The object a pg_* / el_* method passes to ws.send_json.
message(c) ==
    [event |-> event_of(c.method),
     data  |-> IF c.method \in PgMethods
               THEN c.content
               ELSE dict_comp(c.selectors, value_of(c))]

\* set.add and set.remove on _connections; set.remove raises KeyError for an
\* element that is not in the set.
connections_add(c, s) == c \cup {s}
connections_remove(c, s) ==
    IF s \in c
    THEN [set |-> c \ {s}, exc |-> "none"]
    ELSE [set |-> c, exc |-> "KeyError"]

\* ---------------------------------------------------------------- state

InCallback(t) ==
    IF t = BG THEN pc[BG] = "call" ELSE pc[t] \in {"init", "event"}

Init ==
    /\ connections = {}
    /\ pc = [t \in Tasks |-> IF t = BG THEN "call" ELSE "new"]
    /\ up = [s \in Sess |-> FALSE]
    /\ shutdown = FALSE
    /\ inq = [s \in Sess |-> <<>>]
    /\ narr = [s \in Sess |-> 0]
    /\ h = [s \in Sess |-> NoHist]
    /\ bc = [t \in Tasks |-> NoBc]
    /\ fin = NoFin
    /\ nbc = 0
    /\ ticks = 1
    /\ g = NoG
    /\ rx = NoRx
    /\ call = NoCall
    /\ wire = NoWire
    /\ op = NoOp
    /\ insts = NoInsts
    /\ dom = NoDom
    /\ out = NoOut

\* ------------------------------------------- how a callback ends, per task

\* ws() with no `try` around `await init_handler()`: an exception of the init
\* callback ends the handler.
BackToReceive_initfatal(s, how) ==
    /\ pc' = [pc EXCEPT ![s] =
                 IF pc[s] = "init" /\ how # "ret" THEN "closed" ELSE "recv"]
    /\ h' = [h EXCEPT ![s] =
               IF pc[s] = "init"
               THEN [@ EXCEPT !.last = "init_" \o how]
               ELSE [@ EXCEPT !.last = how, !.run = @ - 1, !.ndone = @ + 1]]

\* ws() with the `try` of line 345 outside the `while`: an exception of the
\* event callback ends the inbound loop.
BackToReceive_eventfatal(s, how) ==
    /\ pc' = [pc EXCEPT ![s] =
                 IF pc[s] = "event" /\ how # "ret" THEN "closed" ELSE "recv"]
    /\ h' = [h EXCEPT ![s] =
               IF pc[s] = "init"
               THEN [@ EXCEPT !.last = "init_" \o how]
               ELSE [@ EXCEPT !.last = how, !.run = @ - 1, !.ndone = @ + 1]]

\* ws() after its callback ended in way `how`: after init_handler it enters
\* the inbound loop (line 343), after event_handler it loops to line 346.
BackToReceive(s, how) ==
    /\ pc' = [pc EXCEPT ![s] = "recv"]
    /\ h' = [h EXCEPT ![s] =
               IF pc[s] = "init"
               THEN [@ EXCEPT !.last = "init_" \o how]
               ELSE [@ EXCEPT !.last = how, !.run = @ - 1, !.ndone = @ + 1]]

\* A background loop that calls the handler again as soon as it returned.
Returned_nosleep(t) ==
    IF t = BG
    THEN /\ pc' = [pc EXCEPT ![BG] = "call"]
         /\ g' = [g EXCEPT !.last = "ret", !.slept = FALSE]
         /\ UNCHANGED <<h, ticks>>
    ELSE /\ BackToReceive(t, "ret")
         /\ UNCHANGED <<ticks, g>>

\* The callback of task t returned: ws() goes on to the inbound loop, the
\* background loop goes to asyncio.sleep (line 366).
Returned(t) ==
    IF t = BG
    THEN /\ pc' = [pc EXCEPT ![BG] = "sleep"]
         /\ g' = [g EXCEPT !.last = "ret", !.slept = FALSE]
         /\ UNCHANGED <<h, ticks>>
    ELSE /\ BackToReceive(t, "ret")
         /\ UNCHANGED <<ticks, g>>

\* A background loop with no `try` in its `while`: an exception of the
\* handler ends the task.
Raised_bgstop(t, how) ==
    IF t = BG
    THEN /\ pc' = [pc EXCEPT ![BG] = "cancelled"]
         /\ g' = [last |-> how, slept |-> FALSE]
         /\ UNCHANGED <<h, ticks>>
    ELSE /\ BackToReceive(t, how)
         /\ UNCHANGED <<ticks, g>>

\* The callback of task t raised an Exception: `except Exception` of ws()
\* (lines 340, 348) prints it and ws() goes on to receive; `except Exception`
\* of _background_loop (line 367) prints it and the loop calls the handler
\* again at once (the sleep of line 366 is skipped).
\* how: "exc" when the callback's own code raised, "bcexc" when a pg_* / el_*
\* method it awaited raised.
Raised(t, how) ==
    IF t = BG
    THEN /\ pc' = [pc EXCEPT ![BG] = "call"]
         /\ ticks' = IF ticks < MaxTicks THEN ticks + 1 ELSE ticks
         /\ g' = [last |-> how, slept |-> FALSE]
         /\ UNCHANGED h
    ELSE /\ BackToReceive(t, how)
         /\ UNCHANGED <<ticks, g>>

Finished(t, b, res, err) ==
    [by |-> t, start |-> b.start, sent |-> b.sent,
     now |-> connections, res |-> res, err |-> err]

\* The body of every pg_* / el_* method from one `await ws.send_json` to the
\* next: the for loop asks the iterator for the next websocket and either
\* starts the next send, or ends, or raises RuntimeError into the callback.
LoopStep(t, b) ==
    \E r \in setiter_next(connections, b) :
        CASE r.res = "yield" ->
                 /\ bc' = [bc EXCEPT ![t] =
                              [b EXCEPT !.cur = r.ws, !.sent = Append(b.sent, r.ws)]]
                 /\ fin' = NoFin
                 /\ UNCHANGED <<pc, h, ticks, g>>
          [] r.res = "stop" ->
                 /\ bc' = [bc EXCEPT ![t] = NoBc]
                 /\ fin' = Finished(t, b, "returned", "none")
                 /\ UNCHANGED <<pc, h, ticks, g>>
          [] OTHER ->
                 /\ bc' = [bc EXCEPT ![t] = NoBc]
                 /\ fin' = Finished(t, b, "raised", "RuntimeError")
                 /\ Raised(t, "bcexc")

\* --------------------------------------------------------------- actions

\* ws() awaiting init_handler before it has added the websocket.
Connect_initfirst(s) ==
    /\ pc[s] = "new"
    /\ ~shutdown
    /\ s = 1 \/ pc[s - 1] # "new"
    /\ pc' = [pc EXCEPT ![s] = "init"]
    /\ up' = [up EXCEPT ![s] = TRUE]
    /\ h' = [h EXCEPT ![s] = [@ EXCEPT !.ninit = @ + 1]]
    /\ fin' = NoFin
    /\ UNCHANGED <<connections, shutdown, inq, narr, bc, nbc, ticks, g>>
    /\ rx' = NoRx
    /\ UNCHANGED <<call, wire, op, insts, dom, out>>

\* A browser opens /wui: ws() adds the websocket (line 336) and calls
\* init_handler (line 339).
Connect(s) ==
    /\ pc[s] = "new"
    /\ ~shutdown
    /\ s = 1 \/ pc[s - 1] # "new"
    /\ connections' = connections_add(connections, s)
    /\ pc' = [pc EXCEPT ![s] = "init"]
    /\ up' = [up EXCEPT ![s] = TRUE]
    /\ h' = [h EXCEPT ![s] = [@ EXCEPT !.nadd = @ + 1, !.ninit = @ + 1]]
    /\ fin' = NoFin
    /\ UNCHANGED <<shutdown, inq, narr, bc, nbc, ticks, g>>
    /\ rx' = NoRx
    /\ UNCHANGED <<call, wire, op, insts, dom, out>>

\* A callback (init_handler, event_handler, background_handler) calls a
\* pg_* / el_* method.
Broadcast(t) ==
    /\ InCallback(t)
    /\ bc[t] = NoBc
    /\ nbc < MaxBcast
    /\ nbc' = nbc + 1
    /\ LoopStep(t, [start |-> connections, sent |-> <<>>, cur |-> 0])
    /\ UNCHANGED <<connections, up, shutdown, inq, narr>>
    /\ rx' = NoRx
    /\ UNCHANGED <<call, wire, op, insts, dom, out>>

\* `await ws.send_json(...)` returns: the frame went out.
SendOk(t) ==
    /\ bc[t].cur # 0
    /\ up[bc[t].cur]
    /\ LoopStep(t, [bc[t] EXCEPT !.cur = 0])
    /\ UNCHANGED <<connections, up, shutdown, inq, narr, nbc>>
    /\ rx' = NoRx
    /\ UNCHANGED <<call, wire, op, insts, dom, out>>

\* `await ws.send_json(...)` on a closed transport returns without sending.
SendDrop(t) ==
    /\ bc[t].cur # 0
    /\ ~up[bc[t].cur]
    /\ LoopStep(t, [bc[t] EXCEPT !.cur = 0])
    /\ UNCHANGED <<connections, up, shutdown, inq, narr, nbc>>
    /\ rx' = NoRx
    /\ UNCHANGED <<call, wire, op, insts, dom, out>>

\* `await ws.send_json(...)` on a closed transport raises: nothing in the
\* method catches it, so it leaves the for loop and the callback.
SendFail(t) ==
    /\ bc[t].cur # 0
    /\ ~up[bc[t].cur]
    /\ bc' = [bc EXCEPT ![t] = NoBc]
    /\ fin' = Finished(t, bc[t], "raised", "send")
    /\ Raised(t, "bcexc")
    /\ UNCHANGED <<connections, up, shutdown, inq, narr, nbc>>
    /\ rx' = NoRx
    /\ UNCHANGED <<call, wire, op, insts, dom, out>>

CallbackReturn(t) ==
    /\ InCallback(t)
    /\ bc[t] = NoBc
    /\ Returned(t)
    /\ fin' = NoFin
    /\ UNCHANGED <<connections, up, shutdown, inq, narr, bc, nbc>>
    /\ rx' = NoRx
    /\ UNCHANGED <<call, wire, op, insts, dom, out>>

CallbackRaise(t) ==
    /\ InCallback(t)
    /\ bc[t] = NoBc
    /\ Raised(t, "exc")
    /\ fin' = NoFin
    /\ UNCHANGED <<connections, up, shutdown, inq, narr, bc, nbc>>
    /\ rx' = NoRx
    /\ UNCHANGED <<call, wire, op, insts, dom, out>>

\* The browser sends a frame; the frames of a session are numbered in the
\* order they arrive.
Arrive(s) ==
    /\ up[s]
    /\ SumTo(narr, NumSess) < MaxMsg
    /\ inq' = [inq EXCEPT ![s] = Append(@, narr[s] + 1)]
    /\ narr' = [narr EXCEPT ![s] = @ + 1]
    /\ fin' = NoFin
    /\ UNCHANGED <<connections, pc, up, shutdown, h, bc, nbc, ticks, g>>
    /\ rx' = NoRx
    /\ UNCHANGED <<call, wire, op, insts, dom, out>>

\* A receive that hands out the newest frame instead of the oldest.
NextFrame_newest(q) == q[Len(q)]

\* The frame `await websocket.receive_json()` hands to ws() (line 346): the
\* oldest one of the connection's queue.
NextFrame(q) == Head(q)
RestFrames(q) == Tail(q)

\* ws() with the `try` of line 345 outside the `while`: a frame that cannot
\* be decoded ends the inbound loop.
Receive_badexit(s) ==
    /\ pc[s] = "recv"
    /\ inq[s] # <<>>
    /\ \E form \in Forms :
        LET n == NextFrame(inq[s])
            d == receive_json(form)
        IN  /\ inq' = [inq EXCEPT ![s] = RestFrames(@)]
            /\ rx' = [s |-> s, form |-> form, called |-> ~d.exc,
                       ev |-> d.ev, data |-> d.data]
            /\ IF d.exc
               THEN /\ h' = [h EXCEPT ![s] =
                               [@ EXCEPT !.last = "bad", !.cur = n, !.ndone = @ + 1]]
                    /\ pc' = [pc EXCEPT ![s] = "closed"]
               ELSE /\ h' = [h EXCEPT ![s] = [@ EXCEPT !.cur = n, !.run = @ + 1]]
                    /\ pc' = [pc EXCEPT ![s] = "event"]
    /\ fin' = NoFin
    /\ UNCHANGED <<connections, up, shutdown, narr, bc, nbc, ticks, g>>
    /\ UNCHANGED <<call, wire, op, insts, dom, out>>

\* Lines 346-349: receive_json takes the oldest frame; a decoding error is
\* printed and the loop receives again, otherwise event_handler is awaited.
\* What the frame holds (form) was the browser's choice; the server sees it
\* here for the first time.
Receive(s) ==
    /\ pc[s] = "recv"
    /\ inq[s] # <<>>
    /\ \E form \in Forms :
        LET n == NextFrame(inq[s])
            d == receive_json(form)
        IN  /\ inq' = [inq EXCEPT ![s] = RestFrames(@)]
            /\ rx' = [s |-> s, form |-> form, called |-> ~d.exc,
                       ev |-> d.ev, data |-> d.data]
            /\ IF d.exc
               THEN /\ h' = [h EXCEPT ![s] =
                               [@ EXCEPT !.last = "bad", !.cur = n, !.ndone = @ + 1]]
                    /\ UNCHANGED pc
               ELSE /\ h' = [h EXCEPT ![s] = [@ EXCEPT !.cur = n, !.run = @ + 1]]
                    /\ pc' = [pc EXCEPT ![s] = "event"]
    /\ fin' = NoFin
    /\ UNCHANGED <<connections, up, shutdown, narr, bc, nbc, ticks, g>>
    /\ UNCHANGED <<call, wire, op, insts, dom, out>>

\* The browser closes the connection (or the transport breaks).
ClientClose(s) ==
    /\ up[s]
    /\ pc[s] \in {"init", "recv", "event"}
    /\ up' = [up EXCEPT ![s] = FALSE]
    /\ fin' = NoFin
    /\ UNCHANGED <<connections, pc, shutdown, inq, narr, h, bc, nbc, ticks, g>>
    /\ rx' = NoRx
    /\ UNCHANGED <<call, wire, op, insts, dom, out>>

\* The process is told to stop: the server cancels its tasks.
Shutdown ==
    /\ ~shutdown
    /\ shutdown' = TRUE
    /\ fin' = NoFin
    /\ UNCHANGED <<connections, pc, up, inq, narr, h, bc, nbc, ticks, g>>
    /\ rx' = NoRx
    /\ UNCHANGED <<call, wire, op, insts, dom, out>>

\* ws() without the `except asyncio.CancelledError` of line 350: every
\* cancellation leaves ws() as an exception and the hook is skipped.
Cancel_loopraises(s) ==
    /\ pc[s] \in {"init", "recv", "event"}
    /\ ~up[s] \/ shutdown
    /\ IF TRUE
       THEN /\ h' = [h EXCEPT ![s] = [@ EXCEPT !.last = "cancelled"]]
            /\ UNCHANGED connections
       ELSE /\ h' = [h EXCEPT ![s] =
                        [@ EXCEPT !.last = "loop_exit", !.nrem = @ + 1,
                                  !.ndone = @ + h[s].run, !.run = 0]]
            /\ connections' = connections_remove(connections, s).set
    /\ pc' = [pc EXCEPT ![s] = "closed"]
    /\ up' = [up EXCEPT ![s] = FALSE]
    /\ bc' = [bc EXCEPT ![s] = NoBc]
    /\ fin' = NoFin
    /\ UNCHANGED <<shutdown, inq, narr, nbc, ticks, g>>
    /\ rx' = NoRx
    /\ UNCHANGED <<call, wire, op, insts, dom, out>>

\* ws() with `await init_handler()` inside the try of line 343: a
\* cancellation during init ends ws() normally and the hook runs.
Cancel_initabsorbed(s) ==
    /\ pc[s] \in {"init", "recv", "event"}
    /\ ~up[s] \/ shutdown
    /\ IF FALSE
       THEN /\ h' = [h EXCEPT ![s] = [@ EXCEPT !.last = "cancelled"]]
            /\ UNCHANGED connections
       ELSE /\ h' = [h EXCEPT ![s] =
                        [@ EXCEPT !.last = "loop_exit", !.nrem = @ + 1,
                                  !.ndone = @ + h[s].run, !.run = 0]]
            /\ connections' = connections_remove(connections, s).set
    /\ pc' = [pc EXCEPT ![s] = "closed"]
    /\ up' = [up EXCEPT ![s] = FALSE]
    /\ bc' = [bc EXCEPT ![s] = NoBc]
    /\ fin' = NoFin
    /\ UNCHANGED <<shutdown, inq, narr, nbc, ticks, g>>
    /\ rx' = NoRx
    /\ UNCHANGED <<call, wire, op, insts, dom, out>>

\* The handler task of session s is cancelled (its connection closed, or the
\* process stops): CancelledError is raised at the await ws() is suspended in.
\* In init_handler (line 339) `except Exception` does not catch it, it leaves
\* ws(), and the framework runs no after_websocket hook for a cancelled
\* handler.  In the inbound loop (lines 346-347) line 350 catches it, ws()
\* returns and after_websocket (line 360) removes the websocket.
Cancel(s) ==
    /\ pc[s] \in {"init", "recv", "event"}
    /\ ~up[s] \/ shutdown
    /\ IF pc[s] = "init"
       THEN /\ h' = [h EXCEPT ![s] = [@ EXCEPT !.last = "cancelled"]]
            /\ UNCHANGED connections
       ELSE /\ h' = [h EXCEPT ![s] =
                        [@ EXCEPT !.last = "loop_exit", !.nrem = @ + 1,
                                  !.ndone = @ + h[s].run, !.run = 0]]
            /\ connections' = connections_remove(connections, s).set
    /\ pc' = [pc EXCEPT ![s] = "closed"]
    /\ up' = [up EXCEPT ![s] = FALSE]
    /\ bc' = [bc EXCEPT ![s] = NoBc]
    /\ fin' = NoFin
    /\ UNCHANGED <<shutdown, inq, narr, nbc, ticks, g>>
    /\ rx' = NoRx
    /\ UNCHANGED <<call, wire, op, insts, dom, out>>

\* asyncio.sleep(background_interval) is over: the loop calls the handler.
BgWake ==
    /\ pc[BG] = "sleep"
    /\ ticks < MaxTicks
    /\ pc' = [pc EXCEPT ![BG] = "call"]
    /\ ticks' = ticks + 1
    /\ g' = [g EXCEPT !.slept = TRUE]
    /\ fin' = NoFin
    /\ UNCHANGED <<connections, up, shutdown, inq, narr, h, bc, nbc>>
    /\ rx' = NoRx
    /\ UNCHANGED <<call, wire, op, insts, dom, out>>

\* destroy() (line 370) cancels the background task: CancelledError is no
\* Exception, line 367 does not catch it and the loop ends.
BgCancel ==
    /\ shutdown
    /\ pc[BG] \in {"call", "sleep"}
    /\ pc' = [pc EXCEPT ![BG] = "cancelled"]
    /\ g' = IF pc[BG] = "call" THEN [g EXCEPT !.last = "cut"] ELSE g
    /\ bc' = [bc EXCEPT ![BG] = NoBc]
    /\ fin' = NoFin
    /\ UNCHANGED <<connections, up, shutdown, inq, narr, h, nbc, ticks>>
    /\ rx' = NoRx
    /\ UNCHANGED <<call, wire, op, insts, dom, out>>

Next ==
    \/ \E s \in Sess : Connect(s)
    \/ \E t \in Tasks : Broadcast(t)
    \/ \E t \in Tasks : SendOk(t)
    \/ \E t \in Tasks : SendDrop(t)
    \/ \E t \in Tasks : SendFail(t)
    \/ \E t \in Tasks : CallbackReturn(t)
    \/ \E t \in Tasks : CallbackRaise(t)
    \/ \E s \in Sess : Arrive(s)
    \/ \E s \in Sess : Receive(s)
    \/ \E s \in Sess : ClientClose(s)
    \/ \E s \in Sess : Cancel(s)
    \/ Shutdown
    \/ BgWake
    \/ BgCancel

Spec == Init /\ [][Next]_vars

\* ------------------------------------------------ the message of a method

Calls ==
    [method : PgMethods, selectors : {<<>>}, name : {""}, content : Contents]
    \cup [method : ContentMethods, selectors : SelLists, name : {""},
          content : Contents]
    \cup [method : NameContentMethods, selectors : SelLists, name : Names,
          content : Contents]
    \cup [method : NameMethods, selectors : SelLists, name : Names,
          content : {""}]
    \cup [method : BareMethods, selectors : SelLists, name : {""},
          content : {""}]

\* A callback calls one method with arguments of its choice.
ProtoInit ==
    /\ connections = {}
    /\ pc = [t \in Tasks |-> IF t = BG THEN "call" ELSE "new"]
    /\ up = [s \in Sess |-> FALSE]
    /\ shutdown = FALSE
    /\ inq = [s \in Sess |-> <<>>]
    /\ narr = [s \in Sess |-> 0]
    /\ h = [s \in Sess |-> NoHist]
    /\ bc = [t \in Tasks |-> NoBc]
    /\ fin = NoFin
    /\ nbc = 0
    /\ ticks = 1
    /\ g = NoG
    /\ rx = NoRx
    /\ call \in Calls
    /\ wire = NoWire
    /\ op = NoOp
    /\ insts = NoInsts
    /\ dom = NoDom
    /\ out = NoOut

\* The method builds the message it is going to send to every websocket.
BuildMessage ==
    /\ wire.event = "none"
    /\ wire' = message(call)
    /\ UNCHANGED <<connections, pc, up, shutdown, inq, narr, h, bc, fin, nbc,
                   ticks, g, rx, call, op, insts, dom, out>>

ProtoNext == BuildMessage

ProtoSpec == ProtoInit /\ [][ProtoNext]_vars

\* ------------------------------------------ the order of the commands

\* A connection that puts a new frame in front of the frames sent before.
transmit_front(q, f) == <<f>> \o q

\* `await ws.send_json(...)` returned: the frame went out on the connection
\* after the frames of the sends that returned before it.
transmit(q, f) == Append(q, f)

\* Broadcast, with the call numbered.
OrdBroadcast(t) ==
    /\ InCallback(t)
    /\ bc[t] = NoBc
    /\ nbc < MaxOrdBcast
    /\ nbc' = nbc + 1
    /\ out' = [out EXCEPT !.n[t] = @ + 1]
    /\ LoopStep(t, [start |-> connections, sent |-> <<>>, cur |-> 0])
    /\ rx' = NoRx
    /\ UNCHANGED <<connections, up, shutdown, inq, narr, call, wire, op, insts,
                   dom>>

\* SendOk, with the command recorded on the connection it went out on.
OrdSendOk(t) ==
    /\ bc[t].cur # 0
    /\ up[bc[t].cur]
    /\ out' = [out EXCEPT !.to[bc[t].cur] = transmit(@, <<t, out.n[t]>>)]
    /\ LoopStep(t, [bc[t] EXCEPT !.cur = 0])
    /\ rx' = NoRx
    /\ UNCHANGED <<connections, up, shutdown, inq, narr, nbc, call, wire, op,
                   insts, dom>>

\* The server while its clients stay connected, every command recorded:
\* sessions connect (also in the middle of a broadcast), frames arrive and
\* start event callbacks, the background loop wakes, and the callbacks of
\* all these tasks broadcast side by side.
OrdNext ==
    \/ \E s \in Sess : Connect(s)
    \/ \E t \in Tasks : OrdBroadcast(t)
    \/ \E t \in Tasks : OrdSendOk(t)
    \/ \E t \in Tasks : CallbackReturn(t)
    \/ \E s \in Sess : Arrive(s)
    \/ \E s \in Sess : Receive(s)
    \/ BgWake

OrdSpec == Init /\ [][OrdNext]_vars

\* ------------------------------------- _connections and the instances

\* A class whose __init__ binds a set of its own to self._connections.
attr_owner_instance(i) == i

\* Where the name `self._connections` is found for instance i: __init__ never
\* binds it on self, so it is the attribute of the class (line 184), whatever
\* the instance.  0 stands for the class, i for the instance's own __dict__.
attr_owner(i) == 0

\* The set `self._connections` evaluates to for instance i.
registry(i) ==
    IF attr_owner(i) = 0 THEN connections ELSE insts[attr_owner(i)].attr

AllLive == UNION {insts[i].live : i \in Instances}

\* The set that instance i sees becomes c, its running handlers become live.
RegUpdate(i, c, live) ==
    /\ connections' = IF attr_owner(i) = 0 THEN c ELSE connections
    /\ insts' = [j \in Instances |->
                   [attr |-> IF attr_owner(i) = j THEN c ELSE insts[j].attr,
                    live |-> IF j = i THEN live ELSE insts[j].live]]

\* A browser opens /wui of instance i's app: ws() adds the new websocket
\* object (line 336).
WsOpen(i, w) ==
    /\ w \notin AllLive
    /\ LET b == registry(i)
           a == connections_add(b, w)
       IN  /\ RegUpdate(i, a, insts[i].live \cup {w})
           /\ op' = [kind |-> "add", inst |-> i, ws |-> w, before |-> b,
                     after |-> a, exc |-> "none"]
    /\ UNCHANGED <<pc, up, shutdown, inq, narr, h, bc, fin, nbc, ticks, g, rx,
                   call, wire, dom, out>>

\* The after_websocket hook of instance i's app runs (line 360) for websocket
\* w: one whose ws() has returned, or one the app answered without calling
\* ws() (the hook is registered for the whole app, ws() for /wui only).
AfterWebsocket(i, w) ==
    /\ w \in insts[i].live \/ w \notin AllLive
    /\ LET b == registry(i)
           r == connections_remove(b, w)
       IN  /\ RegUpdate(i, r.set, insts[i].live \ {w})
           /\ op' = [kind |-> "remove", inst |-> i, ws |-> w, before |-> b,
                     after |-> r.set, exc |-> r.exc]
    /\ UNCHANGED <<pc, up, shutdown, inq, narr, h, bc, fin, nbc, ticks, g, rx,
                   call, wire, dom, out>>

\* A pg_* / el_* method of instance i begins `for ws in self._connections`.
Iterate(i) ==
    /\ op' = [kind |-> "iterate", inst |-> i, ws |-> 0, before |-> registry(i),
              after |-> registry(i), exc |-> "none"]
    /\ UNCHANGED <<connections, pc, up, shutdown, inq, narr, h, bc, fin, nbc,
                   ticks, g, rx, call, wire, insts, dom, out>>

RegNext ==
    \/ \E i \in Instances, w \in Websockets : WsOpen(i, w)
    \/ \E i \in Instances, w \in Websockets : AfterWebsocket(i, w)
    \/ \E i \in Instances : Iterate(i)

RegSpec == Init /\ [][RegNext]_vars

\* --------------------------------------- the browser: ws.onmessage

\* JavaScript values a frame can hold under a selector.
JsNull == [t |-> "null", s |-> ""]
JsStr(x) == [t |-> "string", s |-> x]
JsValues == {JsNull, JsStr(""), JsStr("x")}

\* ToString, and the conversion of an assignment to innerText / value (null
\* becomes the empty string).
js_ToString(v) == IF v.t = "null" THEN "null" ELSE v.s
js_DOMString(v) == IF v.t = "null" THEN "" ELSE v.s

\* `data` without the `|| ""`.
js_or_first(a, b) == a

\* a || b: a when a is truthy (a string that is not empty), else b.
js_or(a, b) == IF a.t = "string" /\ a.s # "" THEN a ELSE b

\* str + v
js_plus(str, v) == str \o js_ToString(v)

\* The switch of lines 60-104 for one element rel and the data of its
\* selector; the kinds that set innerText, value and disabled.
js_switch(ev, rel, data) ==
    CASE ev = "el_text" ->
             [rel EXCEPT !.innerText = js_DOMString(data)]
      [] ev = "el_text_append" ->
             [rel EXCEPT !.innerText = js_plus(rel.innerText, js_or(data, JsStr("")))]
      [] ev = "el_value" ->
             [rel EXCEPT !.value = js_DOMString(data)]
      [] ev = "el_value_append" ->
             [rel EXCEPT !.value = js_plus(rel.value, js_or(data, JsStr("")))]
      [] ev \in {"el_enable", "el_disable"} ->
             [rel EXCEPT !.disabled = (ev # "el_enable")]
      [] OTHER -> rel

\* ws.onmessage (lines 7-117) for the parsed frame payload on page: a frame
\* without event is dropped (line 23); Object.keys throws for data that is
\* undefined or null and the try of line 52 catches it (line 112); otherwise
\* every selector of data is applied to the element it matches.
onmessage(payload, page) ==
    IF payload.event = "" THEN page
    ELSE IF payload.data.t # "object" THEN page
    ELSE [sel \in Selectors |->
             IF sel \in DOMAIN payload.data.v
             THEN js_switch(payload.event, page[sel], payload.data.v[sel])
             ELSE page[sel]]

\* Frames a server can send: an event (the empty string: none) and data that
\* is absent, null, or an object from selectors to values.
ClientEvents == {"", "el_text", "el_text_append", "el_value",
                 "el_value_append", "el_enable", "el_disable"}
ClientData ==
    {[t |-> "undefined", v |-> <<>>], [t |-> "null", v |-> <<>>]}
    \cup {[t |-> "object", v |-> f] :
             f \in UNION {[S -> JsValues] : S \in SUBSET Selectors}}
Texts == {"", "ab"}
Pages == [Selectors -> [innerText : Texts, value : Texts, disabled : {FALSE}]]

\* A frame arrives at a page.
ClientInit ==
    /\ connections = {}
    /\ pc = [t \in Tasks |-> IF t = BG THEN "call" ELSE "new"]
    /\ up = [s \in Sess |-> FALSE]
    /\ shutdown = FALSE
    /\ inq = [s \in Sess |-> <<>>]
    /\ narr = [s \in Sess |-> 0]
    /\ h = [s \in Sess |-> NoHist]
    /\ bc = [t \in Tasks |-> NoBc]
    /\ fin = NoFin
    /\ nbc = 0
    /\ ticks = 1
    /\ g = NoG
    /\ rx = NoRx
    /\ call = NoCall
    /\ wire \in [event : ClientEvents, data : ClientData]
    /\ op = NoOp
    /\ insts = NoInsts
    /\ \E p \in Pages : dom = [page |-> p, before |-> p, result |-> "none"]
    /\ out = NoOut

\* The browser runs ws.onmessage for the frame.
OnMessage ==
    /\ dom.result = "none"
    /\ dom' = [dom EXCEPT !.page = onmessage(wire, dom.page), !.result = "done"]
    /\ UNCHANGED <<connections, pc, up, shutdown, inq, narr, h, bc, fin, nbc,
                   ticks, g, rx, call, wire, op, insts, out>>

ClientNext == OnMessage

ClientSpec == ClientInit /\ [][ClientNext]_vars

TypeOK ==
    /\ connections \subseteq Sess
    /\ nbc \in 0..MaxBcast
    /\ ticks \in 0..MaxTicks

\* ================================================================ claims

\* C1: in a broadcast over two or more registered sessions, a send that
\* fails for one session does not stop the broadcast: every session that was
\* registered is still sent to and the call returns normally.
C1_SendFailureContained ==
    (fin.err = "send" /\ Cardinality(fin.start) >= 2)
        => (fin.res = "returned" /\ fin.start \subseteq Range(fin.sent))

\* C2: a broadcast during which the registry changed (a session connected
\* or disconnected while the broadcast was suspended in a send) does not
\* crash: it returns, having sent to exactly the sessions registered when
\* it was called.
C2_RegistryChangeTolerated ==
    (fin.res # "none" /\ fin.err # "send" /\ fin.now # fin.start)
        => (fin.res = "returned" /\ Range(fin.sent) = fin.start)

\* C3: a session whose life has ended was removed from the registry exactly
\* once: never zero times (leaked membership), never twice.
C3_RemovedExactlyOnce ==
    \A s \in Sess :
        /\ h[s].nrem <= 1
        /\ pc[s] = "closed" => h[s].nrem = 1

\* C4: every session in the registry is connected at the transport level or
\* its handler has not ended yet (its teardown is still to run); so a
\* session whose close or cancellation has completed is in no later
\* broadcast's recipient set.
C4_RegisteredIsConnected ==
    \A s \in connections : up[s] \/ pc[s] # "closed"

\* C5: a broadcast with no failing send and no registry change during the
\* call returns after exactly one send to each session that was registered
\* when it was called, and to no other, whatever the order.
C5_OneSendPerSession ==
    (fin.res # "none" /\ fin.err # "send" /\ fin.now = fin.start)
        => /\ fin.res = "returned"
           /\ Range(fin.sent) = fin.start
           /\ Len(fin.sent) = Cardinality(fin.start)

\* A broadcast over all NumSess sessions returned, the registry unchanged.
C5_Witness ==
    /\ fin.res = "returned"
    /\ fin.now = fin.start
    /\ fin.start = Sess
    /\ Len(fin.sent) = NumSess

\* C6: a session whose init callback raised stays registered and is in its
\* inbound loop (receiving, or running the event callback for a frame).
C6_InitFailureContained ==
    \A s \in Sess :
        h[s].last \in {"init_exc", "init_bcexc"}
            => (pc[s] \in {"recv", "event"} /\ s \in connections)

\* After a failed init callback, session s has had a frame dispatched to the
\* event callback and a broadcast is sending to it.
C6_Witness ==
    \E s \in Sess :
        /\ h[s].last = "init_exc"
        /\ pc[s] = "event"
        /\ up[s]
        /\ \E t \in Tasks : bc[t].cur = s

\* C7: per session the registry add comes before the init callback (the
\* session is registered whenever init runs), the add and the init callback
\* happen exactly once, and no frame is taken for the event callback before
\* the init callback has returned or raised.
C7_AddThenInitOnceThenEvents ==
    \A s \in Sess :
        /\ h[s].nadd <= 1 /\ h[s].ninit <= 1
        /\ pc[s] # "new" => (h[s].nadd = 1 /\ h[s].ninit = 1)
        /\ pc[s] = "init" => (s \in connections /\ h[s].cur = 0 /\ h[s].run = 0)
        /\ h[s].cur > 0 => h[s].last \notin {"-", "cancelled"}

\* The event callback of a session runs, after its one init callback.
C7_Witness ==
    \E s \in Sess : pc[s] = "event" /\ h[s].ninit = 1 /\ h[s].run = 1

\* C8: a frame that cannot be decoded does not end the inbound loop: the
\* session is back at receive (or already handling a later frame), still
\* registered, and no frame that arrived was lost.
C8_DecodeFailureContained ==
    \A s \in Sess :
        h[s].last = "bad"
            => /\ pc[s] \in {"recv", "event"}
               /\ s \in connections
               /\ narr[s] = h[s].cur + Len(inq[s])

\* Frame 1 of a session could not be decoded and frame 2 is being handled by
\* the event callback.
C8_Witness ==
    \E s \in Sess : h[s].last = "bad" /\ pc[s] = "event" /\ h[s].cur = 2

\* C9: an event callback that raised (by itself, or out of a broadcast that
\* failed) does not end the session: it is still registered and back at
\* receive, or already handling the next frame.
C9_EventFailureContained ==
    \A s \in Sess :
        h[s].last \in {"exc", "bcexc"}
            => /\ pc[s] \in {"recv", "event"}
               /\ s \in connections
               /\ narr[s] = h[s].cur + Len(inq[s])

\* The event callback for frame 1 raised out of a failed broadcast and the
\* event callback for frame 2 is running.
C9_Witness ==
    \E s \in Sess : h[s].last = "bcexc" /\ pc[s] = "event" /\ h[s].cur = 2

\* C10: per session the frames are handled one at a time in arrival order:
\* at most one event callback runs, the frame taken last is the one after all
\* frames whose handling has ended, and the queue holds the later frames in
\* order.
C10_InOrderOneAtATime ==
    \A s \in Sess :
        /\ h[s].run <= 1
        /\ h[s].run = 1 <=> pc[s] = "event"
        /\ h[s].cur = h[s].ndone + h[s].run
        /\ inq[s] = [i \in 1..(narr[s] - h[s].cur) |-> h[s].cur + i]

\* The event callback for frame 1 has ended and the one for frame 2 runs.
C10_Witness ==
    \E s \in Sess :
        /\ pc[s] = "event"
        /\ h[s].cur = 2
        /\ h[s].ndone = 1
        /\ h[s].last \in {"ret", "exc", "bcexc"}

\* C11: an invocation of the background callback that raised does not stop
\* the loop: the invocation after it has begun (line 367 catches the
\* exception and line 365 calls the handler again with no await in between),
\* so whenever the latest ended invocation is one that raised, the next one
\* is running.
C11_RaiseDoesNotStopLoop ==
    g.last \in {"exc", "bcexc"} => (pc[BG] = "call" /\ ticks >= 2)

\* The first invocation raised out of a failed broadcast, the second one is
\* running and is sending a broadcast of its own.
C11_Witness ==
    /\ g.last = "bcexc"
    /\ pc[BG] = "call"
    /\ ticks = 2
    /\ bc[BG].cur # 0
    /\ ~shutdown

\* C12: whatever the outcome of an invocation of the background callback, a
\* complete wait of the interval lies between it and the next invocation:
\* an invocation that is not the first one began after a sleep that ran to
\* its end.
C12_WaitAfterEveryInvocation ==
    (pc[BG] = "call" /\ g.last # "-") => g.slept

\* C13: when the latest invocation of the background callback returned, the
\* next invocation begins only after one complete sleep that began when it
\* returned.
C13_WaitBetweenNonFailing ==
    /\ (pc[BG] = "call" /\ g.last = "ret") => g.slept
    /\ (pc[BG] = "sleep") => (g.last = "ret" /\ ~g.slept)

\* The first invocation returned, the sleep ran to its end and the second
\* invocation is running.
C13_Witness ==
    pc[BG] = "call" /\ g.last = "ret" /\ g.slept /\ ticks = 2

\* C15: after the process was told to shut down, an invocation of the
\* background callback that is in progress runs to completion (it is never
\* ended by a cancellation), and no new invocation begins (the count of
\* invocations no longer grows).
C15_ShutdownAfterCurrentIteration ==
    [](g.last # "cut") /\ [][shutdown => ticks' = ticks]_vars

\* C14: once the process was told to shut down and every handler has ended,
\* every session that had connected ended by leaving its inbound loop (a
\* normal end, with the after_websocket cleanup run once) and the registry
\* is empty.
C14_ShutdownEmptiesRegistry ==
    (shutdown /\ \A s \in Sess : pc[s] \in {"new", "closed"})
        => /\ connections = {}
           /\ \A s \in Sess :
                  pc[s] = "closed" => (h[s].last = "loop_exit" /\ h[s].nrem = 1)

\* C16: a step in which something of session f fails (its init callback or
\* its event callback raises, a frame of it cannot be decoded, a send to it
\* fails) changes nothing of any other session nor of the background loop,
\* and a broadcast in which the send to f failed still sends to every other
\* session that was registered.
C16_SessionFailureIsolated ==
    [][\A f \in Sess :
          LET own == /\ h'[f].last \in {"init_exc", "exc", "bad"}
                     /\ (h'[f].last # h[f].last \/ h'[f].ndone # h[f].ndone)
              snd == fin'.err = "send" /\ fin'.sent[Len(fin'.sent)] = f
          IN  (own \/ snd) =>
                 /\ \A o \in Sess \ {f} : pc'[o] = pc[o] /\ h'[o] = h[o]
                 /\ pc'[BG] = pc[BG] /\ g' = g
                 /\ snd => (fin'.start \ {f}) \subseteq Range(fin'.sent)]_vars

\* C17: a send of a broadcast goes only to a session that was registered
\* when the broadcast method was called: no connected session gets a command
\* of a call made before it connected.
C17_NoEarlierBroadcast ==
    \A t \in Tasks :
        (bc[t].cur # 0 /\ up[bc[t].cur]) => bc[t].cur \in bc[t].start

\* C18: a broadcast called by the init callback of a session that is still
\* connected has sent to that session when it ends, whatever the other
\* registered sessions did.
C18_InitBroadcastReachesSelf ==
    \A s \in Sess :
        (/\ fin.by = s
         /\ up[s]
         /\ \/ fin.res = "returned" /\ pc[s] = "init"
            \/ fin.res = "raised" /\ h[s].last = "init_bcexc")
            => s \in Range(fin.sent)

\* C19: a frame that is not JSON, is no JSON object or is an object without
\* "event" is skipped (event_handler is not called for it), and for a
\* well-formed frame event_handler is called once, with its event and data.
C19_MalformedSkipped ==
    /\ rx.form \in {"notjson", "notobj", "noevent"} => ~rx.called
    /\ rx.form = "ok" =>
           /\ rx.called /\ rx.ev = "name" /\ rx.data = "data"
           /\ pc[rx.s] = "event" /\ h[rx.s].run = 1

\* C20: the data of the message of a selector-targeted method is the mapping
\* whose keys are exactly the selectors of the list, each mapped to the
\* method's value: the content (the rendered template for
\* el_set_html_templ), [name, content] for el_set_attribute and
\* el_set_style, the class name for el_class_add and el_class_remove, the
\* empty string for el_disable and el_enable.
C20_PayloadPerSelector ==
    (wire.event # "none" /\ call.method \in SelMethods) =>
        /\ DOMAIN wire.data = Range(call.selectors)
        /\ \A k \in DOMAIN wire.data :
              wire.data[k] =
                CASE call.method = "el_set_html_templ" ->
                         (IF call.content = "{{ c }}" THEN "y" ELSE call.content)
                  [] call.method \in ContentMethods -> call.content
                  [] call.method \in NameContentMethods ->
                         <<call.name, call.content>>
                  [] call.method \in NameMethods -> call.name
                  [] OTHER -> ""

\* el_set_text(["#a", "#b"], "x") has built the data {"#a": "x", "#b": "x"}.
C20_Witness ==
    /\ call.method = "el_set_text"
    /\ call.selectors = <<"#a", "#b">>
    /\ call.content = "x"
    /\ wire.event = "el_text"
    /\ DOMAIN wire.data = {"#a", "#b"}
    /\ wire.data["#a"] = "x" /\ wire.data["#b"] = "x"

\* C21: the message a pg_* / el_* method sends is an object with exactly
\* the keys "event" and "data", and its event is the kind of the fixed
\* vocabulary that stands for what the method does.
C21_EnvelopeAndVocabulary ==
    wire.event # "none" =>
        /\ DOMAIN wire = {"event", "data"}
        /\ wire.event \in
              {"pg_set_title", "pg_eval", "el_html", "el_text",
               "el_text_append", "el_value", "el_value_append", "el_set_attr",
               "el_set_style", "el_class_add", "el_class_remove",
               "el_disable", "el_enable"}
        /\ wire.event =
              CASE call.method \in {"el_set_html_unsafe", "el_set_html_templ"}
                       -> "el_html"
                [] call.method = "el_set_text"      -> "el_text"
                [] call.method = "el_append_text"   -> "el_text_append"
                [] call.method = "el_set_value"     -> "el_value"
                [] call.method = "el_append_value"  -> "el_value_append"
                [] call.method = "el_set_attribute" -> "el_set_attr"
                [] call.method = "el_set_style"     -> "el_set_style"
                [] call.method = "el_class_add"     -> "el_class_add"
                [] call.method = "el_class_remove"  -> "el_class_remove"
                [] call.method = "el_disable"       -> "el_disable"
                [] call.method = "el_enable"        -> "el_enable"
                [] call.method = "pg_set_title"     -> "pg_set_title"
                [] call.method = "pg_eval"          -> "pg_eval"

\* el_set_attribute(["#a"], "title", "x") has built an "el_set_attr" message.
C21_Witness ==
    /\ call.method = "el_set_attribute"
    /\ call.selectors = <<"#a">>
    /\ wire.event = "el_set_attr"
    /\ wire.data["#a"] = <<"title", "x">>

\* C22: both mutations of the registry are idempotent: an add of a websocket
\* that is present, and a remove of one that is absent, leave the set as it
\* was and raise nothing.
C22_RegistryIdempotent ==
    /\ (op.kind = "add" /\ op.ws \in op.before)
           => (op.after = op.before /\ op.exc = "none")
    /\ (op.kind = "remove" /\ op.ws \notin op.before)
           => (op.after = op.before /\ op.exc = "none")

\* C26: there is one registry for all instances: it holds the websockets
\* registered through any of them (a websocket leaves it when the hook of
\* its own instance runs), and a method called on any instance iterates all
\* of them.
C26_OneRegistryForAllInstances ==
    /\ connections = AllLive
    /\ op.kind = "iterate" => op.before = AllLive

\* A method of instance 2 iterated over the websocket that was registered
\* through instance 1, instance 2 having none of its own.
C26_Witness ==
    /\ op.kind = "iterate" /\ op.inst = 2
    /\ op.before = {1}
    /\ insts[1].live = {1} /\ insts[2].live = {}

\* C23: ws.onmessage for an el_text_append / el_value_append frame returns,
\* and an element whose selector has no data in the frame (the data of the
\* frame is absent or null, or the selector's value is null or the empty
\* string) keeps the text and the value it had.
C23_AppendOfNothing ==
    (dom.result # "none" /\ wire.event \in {"el_text_append", "el_value_append"})
        => /\ dom.result = "done"
           /\ \A sel \in Selectors :
                 (\/ wire.data.t # "object"
                  \/ /\ sel \in DOMAIN wire.data.v
                     /\ wire.data.v[sel] \in {JsNull, JsStr("")})
                     => /\ dom.page[sel].innerText = dom.before[sel].innerText
                        /\ dom.page[sel].value = dom.before[sel].value

\* An el_text_append frame with null for "#a" and "x" for "#b" was handled:
\* the text "ab" of "#a" is as it was and "#b" got the "x".
C23_Witness ==
    /\ dom.result = "done"
    /\ wire.event = "el_text_append"
    /\ wire.data.t = "object"
    /\ DOMAIN wire.data.v = {"#a", "#b"}
    /\ wire.data.v["#a"] = JsNull
    /\ wire.data.v["#b"] = JsStr("x")
    /\ dom.before["#a"].innerText = "ab" /\ dom.page["#a"].innerText = "ab"
    /\ dom.before["#b"].innerText = "ab" /\ dom.page["#b"].innerText = "abx"

\* C24: a session leaves its inbound loop (waiting for a frame, or running
\* the event callback) only when its connection has closed or the process
\* shuts down, never because of a frame or of a failure of the event
\* callback; and it leaves it normally: ws() returns and after_websocket
\* removes the websocket.
C24_LoopExitsOnlyByCloseOrCancel ==
    [][\A s \in Sess :
          (pc[s] \in {"recv", "event"} /\ pc'[s] \notin {"recv", "event"})
              => /\ ~up[s] \/ shutdown
                 /\ pc'[s] = "closed"
                 /\ h'[s].last = "loop_exit"
                 /\ h'[s].nrem = h[s].nrem + 1
                 /\ s \notin connections']_vars

\* A session that had handled two frames left its inbound loop and was
\* removed.
C24_Witness ==
    \E s \in Sess :
        /\ pc[s] = "closed"
        /\ h[s].last = "loop_exit"
        /\ h[s].cur = 2 /\ h[s].ndone = 2
        /\ h[s].nrem = 1
        /\ s \notin connections

\* C27: a cancellation delivered while the init callback runs is not
\* absorbed: ws() ends by the CancelledError, and a session that ended so
\* never entered its inbound loop: no frame was taken, no event callback was
\* invoked.
C27_InitCancelPropagates ==
    /\ [][\A s \in Sess :
             (pc[s] = "init" /\ pc'[s] = "closed") => h'[s].last = "cancelled"]_vars
    /\ [](\A s \in Sess :
             h[s].last = "cancelled"
                 => (pc[s] = "closed" /\ h[s].cur = 0 /\ h[s].run = 0
                     /\ h[s].ndone = 0))

\* A session was cancelled in its init callback; the frame that had arrived
\* for it is still in the queue.
C27_Witness ==
    \E s \in Sess :
        /\ h[s].last = "cancelled"
        /\ pc[s] = "closed"
        /\ Len(inq[s]) = 1
        /\ h[s].cur = 0

\* C25: the commands of one task reach a session in the order of the calls:
\* of two commands of the same task on a connection, the one of the earlier
\* call went out first, whatever commands of other tasks lie between them.
C25_PerTaskOrder ==
    \A s \in Sess :
        \A i, j \in 1..Len(out.to[s]) :
            (i < j /\ out.to[s][i][1] = out.to[s][j][1])
                => out.to[s][i][2] < out.to[s][j][2]

\* A session got the first command of a task, then a command of another
\* task, then the second command of the first task.
C25_Witness ==
    \E s \in Sess : \E t, u \in Tasks :
        /\ t # u
        /\ out.to[s] = <<<<t, 1>>, <<u, 1>>, <<t, 2>>>>
====
